---- MODULE Spec2Model ----
(***************************************************************************)
(* Model of the stock ledger of src/main.py: the sale flow (create_sale,   *)
(* finalize_sale) and the transfer workflow (request_transfer,             *)
(* update_status, _credit_dest) over the MongoDB collections estoque,      *)
(* vendas and transferencias.  Handlers run concurrently (FastAPI runs     *)
(* sync handlers in a thread pool); a handler is a sequence of collection  *)
(* operations, each atomic on one document, so every collection operation  *)
(* is one step of the model and steps of different handlers interleave.    *)
(***************************************************************************)
EXTENDS Integers, Sequences, FiniteSets, TLC

\* ---- bounds ----
MaxItems == 1
MaxQty == 1
MaxHistory == 2
MaxSeqHistory == 5
InitQty == 1
MaxLocs == 2

\* threads of the pool serving the handlers
Workers == {1, 2}
\* ids of the documents that can be inserted in vendas and transferencias
SaleIds == {1}
TransferIds == {1}
Parts == {"p1"}
Stores == {1, 2}
Users == {"u1"}
PaymentMethods == {"PIX"}
TransferTypes == {"ENTREGA", "RETIRADA"}
\* values of TransferStatusUpdate.new_status the request model documents
NewStatuses == {"APROVADO", "REJEITADO", "TRANSITO", "CONCLUIDO"}
\* the field is any str: a value outside the documented ones, sent in the
\* sequential runs
OtherStatuses == {"OUTRO"}

VARIABLES stock, sales, transfers, pc, loc, resp

vars == <<stock, sales, transfers, pc, loc, resp>>

\* ---- documents ----
SaleItem(part_id, quantity) == [part_id |-> part_id, quantity |-> quantity]

ItemLists == UNION {[1..n -> {SaleItem(p, q) : p \in Parts, q \in 1..MaxQty}] : n \in 1..MaxItems}

NoDoc == [status |-> "NONE"]

\* locals of a running handler: data_new_status is the request's field
\* data.new_status, new_status the local the handler reassigns
NoLoc == [id |-> 0, data_new_status |-> "NONE", new_status |-> "NONE", user |-> "NONE", doc |-> NoDoc,
          exists |-> FALSE, i |-> 0, payment_method |-> "NONE"]

\* resp is the response returned by the last step; NoResp when that step
\* returned none (the handler is still running)
NoResp == [code |-> 0, detail |-> "none"]

Success == [code |-> 200, detail |-> "success"]

HTTPException(code, detail) == [code |-> code, detail |-> detail]

\* ---- ESTOQUE_REDE: the list of {loja_id, qtd} entries of one part ----
\* index of the first entry matching "ESTOQUE_REDE.loja_id": store, 0 if none
FirstIdx(locs, store) ==
  IF \E k \in 1..Len(locs) : locs[k].loja_id = store
  THEN CHOOSE k \in 1..Len(locs) :
         /\ locs[k].loja_id = store
         /\ \A j \in 1..(k - 1) : locs[j].loja_id # store
  ELSE 0

\* update_one({... "ESTOQUE_REDE.loja_id": store}, {"$inc": {"ESTOQUE_REDE.$.qtd": d}}):
\* increments the first matching entry; matches nothing (and changes nothing,
\* without raising) when the part has no entry for the store
IncQtd(locs, store, d) ==
  LET k == FirstIdx(locs, store)
  IN IF k = 0 THEN locs ELSE [locs EXCEPT ![k].qtd = @ + d]

\* quantity held by the first entry of a store, 0 when there is none
QtdIn(locs, store) ==
  LET k == FirstIdx(locs, store)
  IN IF k = 0 THEN 0 ELSE locs[k].qtd

Qtd(p, store) == QtdIn(stock[p], store)

\* total quantity a list of entries holds for a store, over all its entries
RECURSIVE StoreTotal(_, _)
StoreTotal(locs, store) ==
  IF locs = <<>> THEN 0
  ELSE (IF Head(locs).loja_id = store THEN Head(locs).qtd ELSE 0) + StoreTotal(Tail(locs), store)

HasLoc(p, store) == FirstIdx(stock[p], store) # 0

\* a handler is served by the lowest idle thread (idle threads hold no state)
Free(w) == pc[w] = "idle" /\ \A j \in Workers : j < w => pc[j] # "idle"

Init ==
  /\ stock = [p \in Parts |-> <<[loja_id |-> 1, qtd |-> InitQty]>>]
  /\ sales = <<>>
  /\ transfers = <<>>
  /\ pc = [w \in Workers |-> "idle"]
  /\ loc = [w \in Workers |-> NoLoc]
  /\ resp = NoResp

\* ---- sale flow ----
\* create_sale debiting the first item's stock when the sale is created
create_sale_debiting(store_id, items) ==
  /\ Len(sales) + 1 \in SaleIds
  /\ sales' = Append(sales, [store_id |-> store_id, items |-> items,
                             status |-> "PENDENTE", payment_method |-> "None"])
  /\ stock' = [stock EXCEPT ![items[1].part_id] = IncQtd(@, store_id, -items[1].quantity)]
  /\ resp' = Success
  /\ UNCHANGED <<transfers, pc, loc>>

create_sale(store_id, items) ==
  /\ Len(sales) + 1 \in SaleIds
  /\ sales' = Append(sales, [store_id |-> store_id, items |-> items,
                             status |-> "PENDENTE", payment_method |-> "None"])
  /\ resp' = Success
  /\ UNCHANGED <<stock, transfers, pc, loc>>

\* finalize_sale_find without the "Venda ja finalizada" early return
finalize_sale_find_unchecked(w, sale_id, payment_method) ==
  /\ Free(w)
  /\ IF sale_id > Len(sales)
     THEN /\ resp' = HTTPException(404, "Venda nao encontrada")
          /\ UNCHANGED <<pc, loc>>
     ELSE /\ pc' = [pc EXCEPT ![w] = "fs_debit"]
          /\ loc' = [loc EXCEPT ![w] = [NoLoc EXCEPT !.id = sale_id, !.doc = sales[sale_id],
                                                     !.i = 1, !.payment_method = payment_method]]
          /\ resp' = NoResp
  /\ UNCHANGED <<stock, sales, transfers>>

\* find_one of the sale and the two early returns
finalize_sale_find(w, sale_id, payment_method) ==
  /\ Free(w)
  /\ IF sale_id > Len(sales)
     THEN /\ resp' = HTTPException(404, "Venda nao encontrada")
          /\ UNCHANGED <<pc, loc>>
     ELSE IF sales[sale_id].status = "FINALIZADA"
     THEN /\ resp' = HTTPException(400, "Venda ja finalizada")
          /\ UNCHANGED <<pc, loc>>
     ELSE /\ pc' = [pc EXCEPT ![w] = "fs_debit"]
          /\ loc' = [loc EXCEPT ![w] = [NoLoc EXCEPT !.id = sale_id, !.doc = sales[sale_id],
                                                     !.i = 1, !.payment_method = payment_method]]
          /\ resp' = NoResp
  /\ UNCHANGED <<stock, sales, transfers>>

\* one iteration of "for item in sale['items']": the unconditional $inc
finalize_sale_debit(w) ==
  /\ pc[w] = "fs_debit"
  /\ LET sale == loc[w].doc
         item == sale.items[loc[w].i]
     IN /\ stock' = [stock EXCEPT ![item.part_id] = IncQtd(@, sale.store_id, -item.quantity)]
        /\ IF loc[w].i < Len(sale.items)
           THEN /\ loc' = [loc EXCEPT ![w].i = @ + 1]
                /\ pc' = pc
           ELSE /\ loc' = loc
                /\ pc' = [pc EXCEPT ![w] = "fs_update"]
  /\ resp' = NoResp
  /\ UNCHANGED <<sales, transfers>>

finalize_sale_update(w) ==
  /\ pc[w] = "fs_update"
  /\ sales' = [sales EXCEPT ![loc[w].id].status = "FINALIZADA",
                            ![loc[w].id].payment_method = loc[w].payment_method]
  /\ pc' = [pc EXCEPT ![w] = "idle"]
  /\ loc' = [loc EXCEPT ![w] = NoLoc]
  /\ resp' = Success
  /\ UNCHANGED <<stock, transfers>>

\* ---- transfer workflow ----
request_transfer(part_id, from_store_id, to_store_id, quantity, type, user_id) ==
  /\ Len(transfers) + 1 \in TransferIds
  /\ transfers' = Append(transfers,
       [part_id |-> part_id, from_store_id |-> from_store_id, to_store_id |-> to_store_id,
        quantity |-> quantity, type |-> type, status |-> "PENDENTE",
        history |-> <<[status |-> "PENDENTE", user |-> user_id, time |-> "now"]>>])
  /\ resp' = Success
  /\ UNCHANGED <<stock, sales, pc, loc>>

\* find_one of the transfer, then the branch on new_status
update_status_find(w, transfer_id, new_status, user_id) ==
  /\ Free(w)
  /\ IF transfer_id > Len(transfers)
     THEN /\ resp' = HTTPException(404, "Pedido nao encontrado")
          /\ UNCHANGED <<pc, loc>>
     ELSE /\ LET transfer == transfers[transfer_id]
             IN /\ loc' = [loc EXCEPT ![w] = [NoLoc EXCEPT !.id = transfer_id, !.doc = transfer,
                                                       !.data_new_status = new_status,
                                                       !.new_status = new_status, !.user = user_id]]
                /\ pc' = [pc EXCEPT ![w] =
                            IF new_status = "APROVADO" THEN "us_check"
                            ELSE IF new_status = "CONCLUIDO" /\ transfer.type = "ENTREGA" THEN "cd_find"
                            ELSE "us_write"]
          /\ resp' = NoResp
  /\ UNCHANGED <<stock, sales, transfers>>

\* update_status_check without the "Saldo insuficiente" guard
update_status_check_unguarded(w) ==
  /\ pc[w] = "us_check"
  /\ LET t == loc[w].doc
     IN IF ~HasLoc(t.part_id, t.from_store_id)
        THEN /\ resp' = HTTPException(400, "Origem sem estoque")
             /\ pc' = [pc EXCEPT ![w] = "idle"]
             /\ loc' = [loc EXCEPT ![w] = NoLoc]
        ELSE /\ loc' = loc
             /\ pc' = [pc EXCEPT ![w] = "us_debit"]
             /\ resp' = NoResp
  /\ UNCHANGED <<stock, sales, transfers>>

\* "Verifica Saldo": find_one of the origin's entry and the two guards; the
\* local curr_qtd is read by nothing after the guards and is not kept
update_status_check(w) ==
  /\ pc[w] = "us_check"
  /\ LET t == loc[w].doc
     IN IF ~HasLoc(t.part_id, t.from_store_id)
        THEN /\ resp' = HTTPException(400, "Origem sem estoque")
             /\ pc' = [pc EXCEPT ![w] = "idle"]
             /\ loc' = [loc EXCEPT ![w] = NoLoc]
        ELSE IF Qtd(t.part_id, t.from_store_id) < t.quantity
        THEN /\ resp' = [code |-> 400, detail |-> "Saldo insuficiente",
                            disp |-> Qtd(t.part_id, t.from_store_id)]
             /\ pc' = [pc EXCEPT ![w] = "idle"]
             /\ loc' = [loc EXCEPT ![w] = NoLoc]
        ELSE /\ loc' = loc
             /\ pc' = [pc EXCEPT ![w] = "us_debit"]
             /\ resp' = NoResp
  /\ UNCHANGED <<stock, sales, transfers>>

\* update_status_debit with the test of the transfer's type inverted:
\* a RETIRADA is only reserved, an ENTREGA is settled at once
update_status_debit_swapped(w) ==
  /\ pc[w] = "us_debit"
  /\ LET t == loc[w].doc
     IN /\ stock' = [stock EXCEPT ![t.part_id] = IncQtd(@, t.from_store_id, -t.quantity)]
        /\ IF t.type = "ENTREGA"
           THEN /\ pc' = [pc EXCEPT ![w] = "cd_find"]
                /\ loc' = loc
           ELSE /\ pc' = [pc EXCEPT ![w] = "us_write"]
                /\ loc' = [loc EXCEPT ![w].new_status = "SEPARACAO"]
  /\ resp' = NoResp
  /\ UNCHANGED <<sales, transfers>>

\* "Baixa Origem": the $inc of -qty on the origin's entry
update_status_debit(w) ==
  /\ pc[w] = "us_debit"
  /\ LET t == loc[w].doc
     IN /\ stock' = [stock EXCEPT ![t.part_id] = IncQtd(@, t.from_store_id, -t.quantity)]
        /\ IF t.type = "RETIRADA"
           THEN /\ pc' = [pc EXCEPT ![w] = "cd_find"]
                /\ loc' = loc
           ELSE /\ pc' = [pc EXCEPT ![w] = "us_write"]
                /\ loc' = [loc EXCEPT ![w].new_status = "SEPARACAO"]
  /\ resp' = NoResp
  /\ UNCHANGED <<sales, transfers>>

\* _credit_dest: find_one "exists"
credit_dest_find(w) ==
  /\ pc[w] = "cd_find"
  /\ loc' = [loc EXCEPT ![w].exists = HasLoc(loc[w].doc.part_id, loc[w].doc.to_store_id)]
  /\ pc' = [pc EXCEPT ![w] = "cd_update"]
  /\ resp' = NoResp
  /\ UNCHANGED <<stock, sales, transfers>>

\* _credit_dest: $inc of the existing entry, or $push of a new one
credit_dest_update(w) ==
  /\ pc[w] = "cd_update"
  /\ LET t == loc[w].doc
     IN /\ stock' = [stock EXCEPT ![t.part_id] =
                       IF loc[w].exists
                       THEN IncQtd(@, t.to_store_id, t.quantity)
                       ELSE Append(@, [loja_id |-> t.to_store_id, qtd |-> t.quantity])]
        /\ loc' = [loc EXCEPT ![w].new_status =
                     IF @ = "APROVADO" THEN "CONCLUIDO" ELSE @]
  /\ pc' = [pc EXCEPT ![w] = "us_write"]
  /\ resp' = NoResp
  /\ UNCHANGED <<sales, transfers>>

\* the final update_one pushing the status the caller requested instead of
\* the status it stores
update_status_write_requested(w) ==
  /\ pc[w] = "us_write"
  /\ transfers' = [transfers EXCEPT
                     ![loc[w].id].status = loc[w].new_status,
                     ![loc[w].id].history =
                        Append(@, [status |-> loc[w].data_new_status, user |-> loc[w].user])]
  /\ pc' = [pc EXCEPT ![w] = "idle"]
  /\ loc' = [loc EXCEPT ![w] = NoLoc]
  /\ resp' = Success
  /\ UNCHANGED <<stock, sales>>

\* the final update_one: $set status and $push history, one atomic update
update_status_write(w) ==
  /\ pc[w] = "us_write"
  /\ transfers' = [transfers EXCEPT
                     ![loc[w].id].status = loc[w].new_status,
                     ![loc[w].id].history =
                        Append(@, [status |-> loc[w].new_status, user |-> loc[w].user])]
  /\ pc' = [pc EXCEPT ![w] = "idle"]
  /\ loc' = [loc EXCEPT ![w] = NoLoc]
  /\ resp' = Success
  /\ UNCHANGED <<stock, sales>>

\* Inputs of the calls: quantities are positive, and a transfer's origin and
\* destination are distinct stores (the precondition the workflow assumes of
\* its callers).  Part p1 starts with one entry, at store 1; store 2 has none.
\* Driver exceptions (unreachable database, malformed ObjectId) are not
\* explored, so the except branch of finalize_sale is never taken.

\* the calls explored stop once a transfer's history holds n entries
HistoryBelow(id, n) == id <= Len(transfers) => Len(transfers[id].history) < n

Next ==
  \/ \E s \in Stores, items \in ItemLists : create_sale(s, items)
  \/ \E w \in Workers, id \in SaleIds \cup {Cardinality(SaleIds) + 1}, pm \in PaymentMethods :
       finalize_sale_find(w, id, pm)
  \/ \E w \in Workers : finalize_sale_debit(w)
  \/ \E w \in Workers : finalize_sale_update(w)
  \/ \E p \in Parts, f \in Stores, t \in Stores, q \in 1..MaxQty, k \in TransferTypes, u \in Users :
       /\ f # t
       /\ request_transfer(p, f, t, q, k, u)
  \/ \E w \in Workers, id \in TransferIds \cup {Cardinality(TransferIds) + 1}, ns \in NewStatuses, u \in Users :
       /\ HistoryBelow(id, MaxHistory)
       /\ update_status_find(w, id, ns, u)
  \/ \E w \in Workers : update_status_check(w)
  \/ \E w \in Workers : update_status_debit(w)
  \/ \E w \in Workers : credit_dest_find(w)
  \/ \E w \in Workers : credit_dest_update(w)
  \/ \E w \in Workers : update_status_write(w)

Spec == Init /\ [][Next]_vars

\* the same handlers called one after the other: a call starts only when no
\* other call is running
AllIdle == \A w \in Workers : pc[w] = "idle"

SeqNext ==
  \/ \E s \in Stores, items \in ItemLists : AllIdle /\ create_sale(s, items)
  \/ \E w \in Workers, id \in SaleIds \cup {Cardinality(SaleIds) + 1}, pm \in PaymentMethods :
       AllIdle /\ finalize_sale_find(w, id, pm)
  \/ \E w \in Workers : finalize_sale_debit(w)
  \/ \E w \in Workers : finalize_sale_update(w)
  \/ \E p \in Parts, f \in Stores, t \in Stores, q \in 1..MaxQty, k \in TransferTypes, u \in Users :
       /\ AllIdle
       /\ f # t
       /\ request_transfer(p, f, t, q, k, u)
  \/ \E w \in Workers, id \in TransferIds \cup {Cardinality(TransferIds) + 1}, ns \in NewStatuses \cup OtherStatuses, u \in Users :
       /\ AllIdle
       /\ HistoryBelow(id, MaxSeqHistory)
       /\ update_status_find(w, id, ns, u)
  \/ \E w \in Workers : update_status_check(w)
  \/ \E w \in Workers : update_status_debit(w)
  \/ \E w \in Workers : credit_dest_find(w)
  \/ \E w \in Workers : credit_dest_update(w)
  \/ \E w \in Workers : update_status_write(w)

SeqSpec == Init /\ [][SeqNext]_vars

\* ---- catalogue read: get_parts and the total of a part's ESTOQUE_REDE ----
\* get_parts reads documents it did not write (imported catalogue data), so
\* "qtd" holds any BSON value.  Values are tagged with their Python type; a
\* str is the sequence of its characters, a float is counted in halves
\* (val = 3 is 1.5), nan and the infinities are the non-finite doubles.
PyInt(n) == [kind |-> "int", val |-> n]
PyStr(s) == [kind |-> "str", val |-> s]
PyBool(b) == [kind |-> "bool", val |-> b]
PyFloat(halves) == [kind |-> "float", val |-> halves]
PyNonFinite(name) == [kind |-> "nonfinite", val |-> name]
PyNone == [kind |-> "NoneType", val |-> 0]

\* stored texts: "150"-like numbers, padded, signed, grouped, and malformed
StoredStrs == {<<"1">>, <<" ", "1", " ">>, <<"-", "1">>, <<"0", "1">>, <<"1", "_", "0">>,
               <<>>, <<"x">>, <<"1", ".", "5">>, <<"-", " ", "1">>, <<"1", "_">>}

RawQtds ==
  {PyInt(n) : n \in -1..MaxQty} \cup {PyStr(s) : s \in StoredStrs}
    \cup {PyBool(b) : b \in BOOLEAN} \cup {PyFloat(h) : h \in {-3, 3}}
    \cup {PyNonFinite(x) : x \in {"nan", "inf"}} \cup {PyNone}

\* an entry of ESTOQUE_REDE, with or without the "qtd" key
LegacyEntries ==
  {[loja_id |-> 1, qtd |-> r] : r \in RawQtds} \cup {[loja_id |-> 1]}

LegacyLists == UNION {[1..n -> LegacyEntries] : n \in 0..MaxLocs}

\* outcome of evaluating an expression: a value or a raised exception
Ok(n) == [exc |-> "none", val |-> n]
Raise(e) == [exc |-> e, val |-> 0]

Digits == <<"0", "1", "2", "3", "4", "5", "6", "7", "8", "9">>
IsDigit(c) == \E k \in 1..10 : Digits[k] = c
DigitVal(c) == (CHOOSE k \in 1..10 : Digits[k] = c) - 1

RECURSIVE lstrip(_)
lstrip(s) == IF s # <<>> /\ Head(s) = " " THEN lstrip(Tail(s)) ELSE s

RECURSIVE rstrip(_)
rstrip(s) == IF s # <<>> /\ s[Len(s)] = " " THEN rstrip(SubSeq(s, 1, Len(s) - 1)) ELSE s

strip(s) == rstrip(lstrip(s))

\* a decimal literal: digits, single underscores only between digits
IsDecimal(d) ==
  /\ d # <<>>
  /\ IsDigit(d[1])
  /\ IsDigit(d[Len(d)])
  /\ \A k \in 1..Len(d) : IsDigit(d[k]) \/ d[k] = "_"
  /\ \A k \in 1..(Len(d) - 1) : d[k] = "_" => d[k + 1] # "_"

RECURSIVE DecimalVal(_, _)
DecimalVal(d, acc) ==
  IF d = <<>> THEN acc
  ELSE DecimalVal(Tail(d), IF Head(d) = "_" THEN acc ELSE 10 * acc + DigitVal(Head(d)))

\* int(x) of Python: a str is stripped, then an optional sign and a decimal
\* literal; a float is truncated toward zero, nan raises ValueError and an
\* infinity OverflowError; None raises TypeError
int(x) ==
  CASE x.kind = "int" -> Ok(x.val)
    [] x.kind = "bool" -> Ok(IF x.val THEN 1 ELSE 0)
    [] x.kind = "float" -> Ok(IF x.val >= 0 THEN x.val \div 2 ELSE -((-x.val) \div 2))
    [] x.kind = "nonfinite" -> IF x.val = "nan" THEN Raise("ValueError") ELSE Raise("OverflowError")
    [] x.kind = "NoneType" -> Raise("TypeError")
    [] x.kind = "str" ->
         LET t == strip(x.val)
             signed == t # <<>> /\ Head(t) \in {"+", "-"}
             d == IF signed THEN Tail(t) ELSE t
         IN IF ~IsDecimal(d) THEN Raise("ValueError")
            ELSE IF signed /\ Head(t) = "-" THEN Ok(-DecimalVal(d, 0))
            ELSE Ok(DecimalVal(d, 0))

\* "for loja in estoque_rede": total_qtd += int(raw_qtd), ValueError and
\* TypeError passed over, any other exception leaving the loop
RECURSIVE total_qtd(_, _)
total_qtd(estoque_rede, acc) ==
  IF estoque_rede = <<>> THEN Ok(acc)
  ELSE LET loja == Head(estoque_rede)
           raw_qtd == IF "qtd" \in DOMAIN loja THEN loja.qtd ELSE PyInt(0)
           r == int(raw_qtd)
       IN IF r.exc = "none" THEN total_qtd(Tail(estoque_rede), acc + r.val)
          ELSE IF r.exc \in {"ValueError", "TypeError"} THEN total_qtd(Tail(estoque_rede), acc)
          ELSE r

\* get_parts with no search term: every part of the collection, or [] when
\* an exception reaches the outer handler
get_parts ==
  /\ LET totals == [p \in Parts |-> total_qtd(stock[p], 0)]
     IN IF \A p \in Parts : totals[p].exc = "none"
        THEN resp' = [code |-> 200, detail |-> "parts",
                      parts |-> [p \in Parts |->
                                   [id |-> p, quantity |-> totals[p].val,
                                    total_stock |-> totals[p].val, stock_locations |-> stock[p]]]]
        ELSE resp' = [code |-> 200, detail |-> "parts", parts |-> <<>>]
  /\ UNCHANGED <<stock, sales, transfers, pc, loc>>

TotalInit ==
  /\ stock \in [Parts -> LegacyLists]
  /\ sales = <<>>
  /\ transfers = <<>>
  /\ pc = [w \in Workers |-> "idle"]
  /\ loc = [w \in Workers |-> NoLoc]
  /\ resp = NoResp

TotalNext == get_parts

TotalSpec == TotalInit /\ [][TotalNext]_vars


\* ================= properties =================

\* C1: in every reachable state every StockLocation quantity of every part
\* is >= 0, whatever sale finalizations and transfer status updates ran.
C1_QuantityNonNegative ==
  \A p \in Parts : \A k \in 1..Len(stock[p]) : stock[p][k].qtd >= 0

\* rows of the transition table: (current status, kind, requested event)
InTable(status, type, event) ==
  \/ status = "PENDENTE" /\ event = "APROVADO"
  \/ status = "SEPARACAO" /\ event = "TRANSITO"
  \/ status = "TRANSITO" /\ event = "CONCLUIDO" /\ type = "ENTREGA"
  \/ status = "PENDENTE" /\ event = "REJEITADO"

UpdatePcs == {"us_check", "us_debit", "cd_find", "cd_update", "us_write"}

InvalidState == HTTPException(400, "InvalidState")

\* C2: an update_status call whose (current status, event) pair is not a row
\* of the transition table fails with InvalidState and leaves the transfer's
\* status, its history and every stock quantity unchanged: the call returns
\* at the lookup and is never admitted to the steps that write.
C2_InvalidTransitionRejected ==
  [][\A w \in Workers, id \in TransferIds, ns \in NewStatuses, u \in Users :
       (/\ id <= Len(transfers)
        /\ ~InTable(transfers[id].status, transfers[id].type, ns)
        /\ update_status_find(w, id, ns, u))
       => /\ resp' = InvalidState
          /\ pc'[w] = "idle"
          /\ transfers' = transfers
          /\ stock' = stock]_vars

AlreadyFinalized == HTTPException(400, "Venda ja finalizada")

\* C3: a finalize_sale call that looks up a sale already FINALIZADA fails with
\* "Venda ja finalizada" (AlreadyFinalized), starts no debit, and changes no
\* stock quantity and no field of the sale.
C3_FinalizedSaleRejected ==
  [][\A w \in Workers, id \in SaleIds, pm \in PaymentMethods :
       (/\ id <= Len(sales)
        /\ sales[id].status = "FINALIZADA"
        /\ finalize_sale_find(w, id, pm))
       => /\ resp' = AlreadyFinalized
          /\ pc'[w] = "idle"
          /\ loc'[w] = NoLoc
          /\ stock' = stock
          /\ sales' = sales]_vars

\* a finalized sale on which a later finalize call was refused
C3_Witness ==
  /\ \E id \in SaleIds : id <= Len(sales) /\ sales[id].status = "FINALIZADA"
  /\ resp = AlreadyFinalized

\* the debit a handler is about to apply with its next, unconditional $inc
Debiting(w) == pc[w] \in {"us_debit", "fs_debit"}

DebitPart(w) ==
  IF pc[w] = "us_debit" THEN loc[w].doc.part_id ELSE loc[w].doc.items[loc[w].i].part_id

DebitStore(w) ==
  IF pc[w] = "us_debit" THEN loc[w].doc.from_store_id ELSE loc[w].doc.store_id

DebitQty(w) ==
  IF pc[w] = "us_debit" THEN loc[w].doc.quantity ELSE loc[w].doc.items[loc[w].i].quantity

\* C4: of two concurrently issued debits of q1 and q2 against the same
\* (part, store) holding Q, with q1 <= Q, q2 <= Q and q1 + q2 > Q, exactly one
\* succeeds: the two are never both admitted to their decrement (a handler
\* that reached its $inc applies it unconditionally and answers success).
C4_ExactlyOneDebitSucceeds ==
  \A w1 \in Workers, w2 \in Workers :
    (/\ w1 # w2
     /\ Debiting(w1) /\ Debiting(w2)
     /\ DebitPart(w1) = DebitPart(w2) /\ DebitStore(w1) = DebitStore(w2)
     /\ HasLoc(DebitPart(w1), DebitStore(w1)))
    => LET Q == Qtd(DebitPart(w1), DebitStore(w1))
       IN ~(DebitQty(w1) <= Q /\ DebitQty(w2) <= Q /\ DebitQty(w1) + DebitQty(w2) > Q)

\* the step of handler w from label a to label b
Step(w, a, b) == pc[w] = a /\ pc'[w] = b

\* handler w is approving a transfer of the given kind that it found PENDENTE
Approving(w, type) ==
  /\ pc[w] \in UpdatePcs
  /\ loc[w].data_new_status = "APROVADO"
  /\ loc[w].doc.status = "PENDENTE"
  /\ loc[w].doc.type = type

\* C5: approving a PENDENTE transfer of kind RETIRADA (PICKUP) of quantity q
\* whose origin holds at least q lowers the origin by exactly q, raises the
\* destination by exactly q, sets the status CONCLUIDO and appends one history
\* entry, so that a history holding only the creation entry ends with 2.
C5_PickupApprove ==
  [][\A w \in Workers :
       Approving(w, "RETIRADA") =>
         LET t == loc[w].doc
             before == stock[t.part_id]
             after == stock'[t.part_id]
         IN /\ pc[w] = "us_debit" => pc'[w] \in {"us_debit", "cd_find"}
            /\ pc[w] = "cd_find" => pc'[w] \in {"cd_find", "cd_update"}
            /\ pc[w] = "cd_update" => pc'[w] \in {"cd_update", "us_write"}
            /\ Step(w, "us_debit", "cd_find") =>
                 /\ StoreTotal(after, t.from_store_id) = StoreTotal(before, t.from_store_id) - t.quantity
                 /\ StoreTotal(after, t.to_store_id) = StoreTotal(before, t.to_store_id)
            /\ Step(w, "cd_update", "us_write") =>
                 /\ StoreTotal(after, t.to_store_id) = StoreTotal(before, t.to_store_id) + t.quantity
                 /\ StoreTotal(after, t.from_store_id) = StoreTotal(before, t.from_store_id)
            /\ Step(w, "us_write", "idle") =>
                 /\ transfers'[loc[w].id].status = "CONCLUIDO"
                 /\ transfers'[loc[w].id].history =
                      Append(transfers[loc[w].id].history, [status |-> "CONCLUIDO", user |-> loc[w].user])
                 /\ (Len(transfers[loc[w].id].history) = 1 => Len(transfers'[loc[w].id].history) = 2)
                 /\ resp' = Success
                 /\ stock' = stock]_vars

\* a RETIRADA transfer settled by one approval: 2 history entries, CONCLUIDO,
\* the destination holding the transferred quantity
C5_Witness ==
  \E id \in TransferIds :
    /\ id <= Len(transfers)
    /\ transfers[id].type = "RETIRADA"
    /\ transfers[id].status = "CONCLUIDO"
    /\ Len(transfers[id].history) = 2
    /\ resp = Success
    /\ transfers[id].from_store_id = 1
    /\ StoreTotal(stock[transfers[id].part_id], 1) = InitQty - transfers[id].quantity
    /\ StoreTotal(stock[transfers[id].part_id], transfers[id].to_store_id) = transfers[id].quantity

\* handler w, approving a transfer it found PENDENTE, fails the stock guard:
\* the origin has no entry for the part or holds less than the quantity
GuardFails(w) ==
  /\ pc[w] = "us_check"
  /\ pc'[w] # "us_check"
  /\ loc[w].doc.status = "PENDENTE"
  /\ \/ ~HasLoc(loc[w].doc.part_id, loc[w].doc.from_store_id)
     \/ Qtd(loc[w].doc.part_id, loc[w].doc.from_store_id) < loc[w].doc.quantity

NothingChanges(w) ==
  /\ pc'[w] = "idle"
  /\ transfers' = transfers
  /\ stock' = stock
  /\ sales' = sales

\* C6 (as stated): approve on a PENDENTE transfer whose origin holds less than
\* the quantity, or has no entry for the part, fails with InsufficientStock
\* ("Saldo insuficiente") carrying the available quantity; status, history and
\* stock are unchanged.
C6_InsufficientStockCarriesAvailable ==
  [][\A w \in Workers :
       GuardFails(w) =>
         /\ resp'.detail = "Saldo insuficiente"
         /\ resp'.disp = Qtd(loc[w].doc.part_id, loc[w].doc.from_store_id)
         /\ NothingChanges(w)]_vars

\* C6 (amended): when the origin has an entry holding less than the quantity
\* the call fails with "Saldo insuficiente" carrying the available quantity;
\* when the origin has no entry it fails with "Origem sem estoque", which
\* carries no quantity; in both cases status, history and stock are unchanged.
C6_GuardFailureLeavesAllUnchanged ==
  [][\A w \in Workers :
       GuardFails(w) =>
         /\ IF HasLoc(loc[w].doc.part_id, loc[w].doc.from_store_id)
            THEN resp' = [code |-> 400, detail |-> "Saldo insuficiente",
                          disp |-> Qtd(loc[w].doc.part_id, loc[w].doc.from_store_id)]
            ELSE resp' = HTTPException(400, "Origem sem estoque")
         /\ NothingChanges(w)]_vars

\* a transfer still PENDENTE with only its creation entry after an approval
\* was refused for insufficient stock at an existing origin entry
C6_Witness ==
  \E id \in TransferIds :
    /\ id <= Len(transfers)
    /\ transfers[id].status = "PENDENTE"
    /\ Len(transfers[id].history) = 1
    /\ resp.detail = "Saldo insuficiente"
    /\ resp.disp < transfers[id].quantity

\* the statuses recorded by a transfer's history, oldest first
Statuses(t) == [k \in 1..Len(t.history) |-> t.history[k].status]

\* C7: for an ENTREGA (DELIVERY) transfer of quantity q, approve debits the
\* origin by q and moves to SEPARACAO (PICKING), TRANSITO changes no stock,
\* CONCLUIDO credits the destination by q; a CONCLUIDO requested on a transfer
\* that is already CONCLUIDO fails with InvalidState without crediting again.
C7_DeliveryCreditedOnce ==
  [][/\ \A w \in Workers :
          LET t == loc[w].doc
          IN /\ (Approving(w, "ENTREGA") /\ Step(w, "us_debit", "us_write")) =>
                  /\ StoreTotal(stock'[t.part_id], t.from_store_id) =
                       StoreTotal(stock[t.part_id], t.from_store_id) - t.quantity
                  /\ loc'[w].new_status = "SEPARACAO"
             /\ (pc[w] = "us_write" /\ loc[w].data_new_status = "TRANSITO" /\ pc'[w] = "idle") =>
                  /\ stock' = stock
                  /\ transfers'[loc[w].id].status = "TRANSITO"
             /\ (loc[w].data_new_status = "CONCLUIDO" /\ Step(w, "cd_update", "us_write")) =>
                  /\ StoreTotal(stock'[t.part_id], t.to_store_id) =
                       StoreTotal(stock[t.part_id], t.to_store_id) + t.quantity
     /\ \A w \in Workers, id \in TransferIds, u \in Users :
          (/\ id <= Len(transfers)
           /\ transfers[id].type = "ENTREGA"
           /\ transfers[id].status = "CONCLUIDO"
           /\ Statuses(transfers[id]) = <<"PENDENTE", "SEPARACAO", "TRANSITO", "CONCLUIDO">>
           /\ update_status_find(w, id, "CONCLUIDO", u))
          => /\ resp' = InvalidState
             /\ pc'[w] = "idle"]_vars

\* handler w applies the $inc of the item it is at in finalize_sale's loop
DebitsItem(w) ==
  /\ pc[w] = "fs_debit"
  /\ \/ pc'[w] = "fs_update"
     \/ loc'[w].i = loc[w].i + 1

\* C8: finalizing a created sale reduces, for every item, the quantity of the
\* item's part at the sale's store by exactly the item's quantity, and changes
\* no other stock quantity.
C8_FinalizeDebitsEachItem ==
  [][\A w \in Workers :
       DebitsItem(w) =>
         LET sale == loc[w].doc
             item == sale.items[loc[w].i]
         IN /\ StoreTotal(stock'[item.part_id], sale.store_id) =
                 StoreTotal(stock[item.part_id], sale.store_id) - item.quantity
            /\ \A s \in Stores \ {sale.store_id} :
                 StoreTotal(stock'[item.part_id], s) = StoreTotal(stock[item.part_id], s)
            /\ \A p \in Parts \ {item.part_id} : stock'[p] = stock[p]]_vars

\* number of history entries of a transfer recording the given status
Entries(t, status) == Cardinality({k \in 1..Len(t.history) : t.history[k].status = status})

\* C9: over any sequence of update_status calls a transfer debits its origin
\* at most once and credits its destination at most once.  Every debit of an
\* ENTREGA transfer is recorded by one SEPARACAO history entry and every
\* credit by one CONCLUIDO entry, so its history holds at most one of each.
C9_AtMostOneDebitAndCredit ==
  \A id \in TransferIds :
    (id <= Len(transfers) /\ transfers[id].type = "ENTREGA") =>
      /\ Entries(transfers[id], "SEPARACAO") <= 1
      /\ Entries(transfers[id], "CONCLUIDO") <= 1

StockDebitFailed == HTTPException(500, "Erro ao baixar estoque")

\* C10: finalize_sale fails with StockDebitFailed ("Erro ao baixar estoque")
\* when the sale's store has no entry for an item's part or holds less than
\* the item's quantity, and then the sale is not set to FINALIZADA.
C10_FailedDebitFailsFinalize ==
  [][\A w \in Workers :
       (/\ DebitsItem(w)
        /\ LET sale == loc[w].doc
               item == sale.items[loc[w].i]
           IN \/ ~HasLoc(item.part_id, sale.store_id)
              \/ Qtd(item.part_id, sale.store_id) < item.quantity)
       => /\ resp' = StockDebitFailed
          /\ pc'[w] = "idle"
          /\ sales' = sales]_vars

\* C11: the destination of an ENTREGA (DELIVERY) transfer is credited only by
\* the transition TRANSITO -> CONCLUIDO, after the debit of the origin made at
\* approval (recorded by a SEPARACAO history entry): a handler is in
\* _credit_dest for an ENTREGA transfer only if it found it in TRANSITO with
\* that debit recorded.
C11_DeliveryCreditFollowsDebit ==
  \A w \in Workers :
    (pc[w] \in {"cd_find", "cd_update"} /\ loc[w].doc.type = "ENTREGA") =>
      /\ loc[w].doc.status = "TRANSITO"
      /\ Entries(loc[w].doc, "SEPARACAO") >= 1

\* h is g with entries appended at its end
IsPrefix(g, h) == Len(g) <= Len(h) /\ \A k \in 1..Len(g) : h[k] = g[k]

\* C12: every accepted transition appends exactly one {status, actor,
\* timestamp} record to the transfer's history in the same step as the status
\* change, and no step alters, removes or reorders an existing entry.
C12_HistoryAppendOnly ==
  [][\A id \in TransferIds :
       id <= Len(transfers) =>
         /\ IsPrefix(transfers[id].history, transfers'[id].history)
         /\ (transfers'[id] # transfers[id]) =>
              LET h == transfers'[id].history
              IN /\ Len(h) = Len(transfers[id].history) + 1
                 /\ h[Len(h)].status = transfers'[id].status
                 /\ DOMAIN h[Len(h)] = {"status", "user", "time"}]_vars

\* C13: CONCLUIDO and REJEITADO are terminal: once a transfer has one of
\* them, no later update_status call changes its status.
C13_TerminalStatuses ==
  [][\A id \in TransferIds :
       (id <= Len(transfers) /\ transfers[id].status \in {"CONCLUIDO", "REJEITADO"})
       => transfers'[id].status = transfers[id].status]_vars

InitStock == [p \in Parts |-> <<[loja_id |-> 1, qtd |-> InitQty]>>]

\* C14: create_sale persists a new sale with status PENDENTE and a null
\* payment method and leaves every stock quantity of every part unchanged.
C14_CreateSaleTouchesNoStock ==
  [][Len(sales') > Len(sales) =>
       /\ sales' = Append(sales, sales'[Len(sales')])
       /\ sales'[Len(sales')].status = "PENDENTE"
       /\ sales'[Len(sales')].payment_method = "None"
       /\ stock' = stock
       /\ transfers' = transfers
       /\ resp' = Success]_vars

\* a sale just created at a store holding stock: PENDENTE, stock untouched
C14_Witness ==
  /\ Len(sales) = 1
  /\ sales[1].status = "PENDENTE"
  /\ sales[1].payment_method = "None"
  /\ sales[1].store_id = 1
  /\ resp = Success
  /\ stock = InitStock
  /\ transfers = <<>>

\* C15: _credit_dest increments the store's existing entry or appends a new
\* one, so a part never holds two ESTOQUE_REDE entries with the same loja_id,
\* also when two credits to a store with no entry yet run concurrently.
C15_OneEntryPerStore ==
  \A p \in Parts : \A j \in 1..Len(stock[p]), k \in 1..Len(stock[p]) :
    stock[p][j].loja_id = stock[p][k].loja_id => j = k

\* what the quantity of an entry counts for: its integer value, 0 when it is
\* absent or has none
Coerced(loja) ==
  IF "qtd" \notin DOMAIN loja THEN 0
  ELSE IF int(loja.qtd).exc = "none" THEN int(loja.qtd).val ELSE 0

RECURSIVE CoercedSum(_)
CoercedSum(locs) == IF locs = <<>> THEN 0 ELSE Coerced(Head(locs)) + CoercedSum(Tail(locs))

\* C16: the total stock get_parts reports for a part is the sum over its
\* entries of the quantity coerced to an integer, a malformed or non-numeric
\* quantity counting as 0, and the computation never fails: every part is
\* reported, whatever mix of numeric and malformed quantities is stored.
C16_TotalStockSumsCoercedQuantities ==
  resp.detail = "parts" =>
    \A p \in Parts :
      /\ p \in DOMAIN resp.parts
      /\ resp.parts[p].total_stock = CoercedSum(stock[p])
      /\ resp.parts[p].quantity = CoercedSum(stock[p])

Finalizing(w) == pc[w] \in {"fs_debit", "fs_update"}

\* C17: a sale is debited at most once also under concurrent finalize_sale
\* calls: a handler past the status check works on a sale that is still
\* PENDENTE, and no two handlers are past the check for the same sale.
C17_SaleFinalizedOnce ==
  \A w \in Workers :
    Finalizing(w) =>
      /\ sales[loc[w].id].status = "PENDENTE"
      /\ \A v \in Workers : (Finalizing(v) /\ loc[v].id = loc[w].id) => v = w

\* sum of the quantities of all entries of a part
RECURSIVE TotalQtd(_)
TotalQtd(locs) == IF locs = <<>> THEN 0 ELSE Head(locs).qtd + TotalQtd(Tail(locs))

\* quantity of part p debited from an origin and not yet credited: its
\* ENTREGA transfers in SEPARACAO or TRANSITO
RECURSIVE InMotion(_, _)
InMotion(ts, p) ==
  IF ts = <<>> THEN 0
  ELSE (IF /\ Head(ts).part_id = p
           /\ Head(ts).type = "ENTREGA"
           /\ Head(ts).status \in {"SEPARACAO", "TRANSITO"}
        THEN Head(ts).quantity ELSE 0) + InMotion(Tail(ts), p)

\* C18: transfers conserve stock: whenever no call is in progress and no
\* sale has been finalized, the quantities of all entries of a part plus the
\* quantities of its ENTREGA transfers in SEPARACAO or TRANSITO equal the
\* part's initial total.
C18_TransfersConserveStock ==
  (AllIdle /\ \A k \in 1..Len(sales) : sales[k].status # "FINALIZADA") =>
    \A p \in Parts : TotalQtd(stock[p]) + InMotion(transfers, p) = TotalQtd(InitStock[p])

\* C19: the status of a transfer is the status of the last entry of its
\* history, and the history is never empty.
C19_StatusIsLastHistoryEntry ==
  \A id \in 1..Len(transfers) :
    /\ transfers[id].history # <<>>
    /\ transfers[id].status = transfers[id].history[Len(transfers[id].history)].status

\* an approved ENTREGA transfer: requested APROVADO, stored and logged SEPARACAO
C19_Witness ==
  /\ Len(transfers) = 1
  /\ Statuses(transfers[1]) = <<"PENDENTE", "SEPARACAO">>
  /\ transfers[1].status = "SEPARACAO"
  /\ resp = Success

StoredStatuses == {"PENDENTE", "SEPARACAO", "TRANSITO", "CONCLUIDO", "REJEITADO"}

\* C20: the stored status of a transfer is always one of PENDENTE, SEPARACAO,
\* TRANSITO, CONCLUIDO, REJEITADO: APROVADO is never stored, and neither is
\* any other value a caller requests.
C20_StoredStatusInTable ==
  \A id \in 1..Len(transfers) : transfers[id].status \in StoredStatuses
====
